---- MODULE Spec2Model ----
(***************************************************************************)
(* Model of Client.get_all_services_metadata (src/data/tosdr/client.py):   *)
(* the synchronous fetch of page 1, the fan-out of one asyncio task per    *)
(* remaining page under the shared AsyncLimiter, the backoff retry of a    *)
(* throttled page, and the merge of the gathered results.                  *)
(*                                                                         *)
(* Time is counted in ticks of half a time-unit, so the limiter's          *)
(* time_period of 1.5 is 3 ticks.  The limiter's level is kept scaled by   *)
(* TimePeriod so that the leak of max_rate/time_period per time-unit is a  *)
(* whole number per tick.  The limiter leaks linearly in the time elapsed  *)
(* since its last check, so the level it computes on a check is the level  *)
(* obtained by leaking one tick at every tick: the model keeps that level  *)
(* and no absolute clock.  The history variables that measure time         *)
(* saturate at one period, which is all a comparison with a period needs.  *)
(***************************************************************************)
EXTENDS Integers, Sequences, FiniteSets, TLC

\* ---- bounds of the model
MaxPages == 3
MaxItems == 2

\* ---- program constants
\* Variant: the limiter is configured with max_rate=2.
MaxRateDoubled == 1 + 1

\* AsyncLimiter(max_rate=1, ...)
MaxRate == 1
\* AsyncLimiter(..., time_period=1.5), in ticks
TimePeriod == 3
\* backoff.on_exception(max_tries=10)
MaxTries == 10

VARIABLES
    pc,                      \* position of get_all_services_metadata
    first_page,              \* result of get_service_metadata_page(page=1)
    remaining_pages_indices, \* range(2, total_page_count + 1)
    tasks,                   \* the coroutines handed to asyncio.gather, in order
    coro_returns,            \* what gather collects, one slot per task
    level,                   \* AsyncLimiter._level (scaled by TimePeriod), leaked up to now
    services,                \* merge of the remaining pages
    errorLog,                \* logger.error lines: the pages reported as failed
    result,                  \* the list get_all_services_metadata returns
    error,                   \* the exception that leaves get_all_services_metadata
    requested,               \* history: pages a request was sent for
    unadmitted,              \* history: pages a request was sent for without an
                             \* admission of the limiter for that request
    page1Requests,           \* history: requests sent for page 1
    endedOnLastTry,          \* history: pages whose task ended on try max_tries
    outOfOrder,              \* history: a task ended before a task submitted earlier
    anyAdmit,                \* history: the limiter has admitted a request
    sinceAdmit,              \* history: ticks since the last admission (saturating)
    admitGap,                \* history: ticks between the last two admissions (saturating)
    lead                     \* history: ticks since the first admission minus
                             \* TimePeriod for every later admission (saturating)

vars == <<pc, first_page, remaining_pages_indices, tasks, coro_returns, level,
          services, errorLog, result, error, requested, unadmitted,
          page1Requests, endedOnLastTry, outOfOrder, anyAdmit, sinceAdmit, admitGap, lead>>

Pages == 1..MaxPages

Max(a, b) == IF a >= b THEN a ELSE b
Min(a, b) == IF a <= b THEN a ELSE b

\* ---- the remote service
\* Items of page p when the service returns n of them.
PageItems(p, n) == [k \in 1..n |-> <<p, k>>]

\* Outcomes of one request: a page body, a throttling status (429), another
\* error status, a network failure, a body that does not validate.
ErrorKinds == {"too_many", "bad_status", "network", "malformed"}

\* A page body holds no item or MaxItems of them.
ItemCounts == {0, MaxItems}

Responses ==
    [kind : {"ok"}, n : ItemCounts] \cup [kind : ErrorKinds, n : {0}]

Page1Responses ==
    [kind : {"ok"}, n : ItemCounts, end : 0..MaxPages]
        \cup [kind : ErrorKinds, n : {0}, end : {0}]

NoPage == [ok |-> FALSE, total_page_count |-> 0, services_metadata |-> <<>>]

\* ---- AsyncLimiter(max_rate=1, time_period=1.5)
\* _leak: the level drains by max_rate per time_period of elapsed time.
Leak(lvl, elapsed) ==
    IF lvl # 0 THEN Max(lvl - elapsed * MaxRate, 0) ELSE lvl

\* Variant: the limiter is held like a lock until the response has come.
HasCapacityExclusive(lvl) ==
    /\ lvl + TimePeriod <= MaxRate * TimePeriod
    /\ \A k \in 1..Len(tasks) : tasks[k].state # "inflight"

\* has_capacity(amount=1), after _leak: level + amount <= max_rate.
HasCapacity(lvl) == lvl + TimePeriod <= MaxRate * TimePeriod

\* ---- backoff.on_exception(expo, ClientResponseError, max_tries=10, giveup)
\* exception=aiohttp.ClientResponseError: the decorator handles an error
\* status only; a network failure or a body that does not validate passes
\* through it.
IsClientResponseError(kind) == kind \in {"too_many", "bad_status"}

\* Variant: the decorator is given no giveup predicate.
GiveupNever(kind) == FALSE

\* giveup=lambda e: e.status != codes["too_many"]
Giveup(kind) == kind # "too_many"

\* Variant: the tries are compared with max_tries after one more try.
RetriesOneMore(kind, tries) ==
    IsClientResponseError(kind) /\ ~Giveup(kind) /\ tries # MaxTries + 1

\* The decorator sleeps and calls the coroutine again iff it handles the
\* exception, giveup is false and the tries made are not max_tries.
Retries(kind, tries) ==
    IsClientResponseError(kind) /\ ~Giveup(kind) /\ tries # MaxTries

\* Variant: range(1, first_page.total_page_count + 1).
RemainingFromOne(total) == [i \in 1..Max(total, 0) |-> i]

\* ---- range(2, first_page.total_page_count + 1)
RemainingPagesIndices(total) == [i \in 1..Max(total - 1, 0) |-> i + 1]

\* Variant: services = coro_ret + services.
RECURSIVE MergeReversed(_, _)
MergeReversed(rets, i) ==
    IF i = 0 THEN <<>>
    ELSE IF rets[i].kind = "exception" THEN MergeReversed(rets, i - 1)
    ELSE rets[i].value \o MergeReversed(rets, i - 1)

\* Variant: the error line names idx, not remaining_pages_indices[idx].
RECURSIVE LoggedErrorsByIndex(_, _, _)
LoggedErrorsByIndex(rets, idxs, i) ==
    IF i = 0 THEN <<>>
    ELSE IF rets[i].kind = "exception"
         THEN Append(LoggedErrorsByIndex(rets, idxs, i - 1),
                     [page |-> i - 1, error |-> rets[i].err])
         ELSE LoggedErrorsByIndex(rets, idxs, i - 1)

\* Variant: services += coro_ret runs twice for a page.
RECURSIVE MergeReturnsTwice(_, _)
MergeReturnsTwice(rets, i) ==
    IF i = 0 THEN <<>>
    ELSE IF rets[i].kind = "exception" THEN MergeReturnsTwice(rets, i - 1)
    ELSE MergeReturnsTwice(rets, i - 1) \o rets[i].value \o rets[i].value

\* ---- lines 98-104: merge of coro_returns in task order
RECURSIVE MergeReturns(_, _)
MergeReturns(rets, i) ==
    IF i = 0 THEN <<>>
    ELSE IF rets[i].kind = "exception" THEN MergeReturns(rets, i - 1)
    ELSE MergeReturns(rets, i - 1) \o rets[i].value

RECURSIVE LoggedErrors(_, _, _)
LoggedErrors(rets, idxs, i) ==
    IF i = 0 THEN <<>>
    ELSE IF rets[i].kind = "exception"
         THEN Append(LoggedErrors(rets, idxs, i - 1),
                     [page |-> idxs[i], error |-> rets[i].err])
         ELSE LoggedErrors(rets, idxs, i - 1)

Init ==
    /\ pc = "start"
    /\ first_page = NoPage
    /\ remaining_pages_indices = <<>>
    /\ tasks = <<>>
    /\ coro_returns = <<>>
    /\ level = 0
    /\ services = <<>>
    /\ errorLog = <<>>
    /\ result = <<>>
    /\ error = "none"
    /\ requested = {}
    /\ unadmitted = {}
    /\ page1Requests = 0
    /\ endedOnLastTry = {}
    /\ outOfOrder = FALSE
    /\ anyAdmit = FALSE
    /\ sinceAdmit = TimePeriod
    /\ admitGap = TimePeriod
    /\ lead = 0

admitVars == <<anyAdmit, admitGap>>
timeVars == <<level, sinceAdmit, lead>>
reqVars == <<requested, unadmitted, page1Requests>>
mainVars == <<first_page, remaining_pages_indices, services, errorLog, result, error>>
endVars == <<endedOnLastTry, outOfOrder>>

\* The event loop's clock advances by one tick.
Tick ==
    /\ level' = Leak(level, 1)
    /\ sinceAdmit' = Min(sinceAdmit + 1, TimePeriod)
    /\ lead' = IF anyAdmit THEN Min(lead + 1, TimePeriod) ELSE lead
    /\ UNCHANGED <<pc, mainVars, tasks, coro_returns, reqVars, admitVars,
                   endVars>>

\* line 72: self.request(...) for page 1, a synchronous call made before the
\* event loop exists; the limiter is not involved.
Page1Request ==
    /\ pc = "start"
    /\ pc' = "page1_inflight"
    /\ requested' = requested \cup {1}
    /\ unadmitted' = unadmitted \cup {1}
    /\ page1Requests' = page1Requests + 1
    /\ UNCHANGED <<mainVars, tasks, coro_returns, timeVars, admitVars,
                   endVars>>

\* Variant: an error of the page-1 request is swallowed and the export goes
\* on with an empty first page.
Page1RespondSwallow(r) ==
    /\ pc = "page1_inflight"
    /\ first_page' = IF r.kind = "ok"
                     THEN [ok |-> TRUE, total_page_count |-> r.end,
                           services_metadata |-> PageItems(1, r.n)]
                     ELSE NoPage
    /\ pc' = "page1_done"
    /\ UNCHANGED <<remaining_pages_indices, services, errorLog, result, error,
                   tasks, coro_returns, timeVars, reqVars, admitVars, endVars>>

\* lines 72-73 and 106: the response of page 1 is validated, or the error
\* leaves get_all_services_metadata.
Page1Respond(r) ==
    /\ pc = "page1_inflight"
    /\ IF r.kind = "ok"
       THEN /\ first_page' = [ok |-> TRUE, total_page_count |-> r.end,
                              services_metadata |-> PageItems(1, r.n)]
            /\ pc' = "page1_done"
            /\ UNCHANGED error
       ELSE /\ pc' = "raised"
            /\ error' = r.kind
            /\ UNCHANGED first_page
    /\ UNCHANGED <<remaining_pages_indices, services, errorLog, result, tasks,
                   coro_returns, timeVars, reqVars, admitVars, endVars>>

\* line 107
ComputeRemaining ==
    /\ pc = "page1_done"
    /\ remaining_pages_indices' = RemainingPagesIndices(first_page.total_page_count)
    /\ pc' = "remaining"
    /\ UNCHANGED <<first_page, services, errorLog, result, error, tasks,
                   coro_returns, timeVars, reqVars, admitVars, endVars>>

\* A coroutine of line 93 as a task: its page, its position, the tries the
\* decorator has counted and the outcome of its last request.
NewTask(page) == [page |-> page, state |-> "scheduled", tries |-> 0, last |-> "none"]
Pending == [kind |-> "pending", value |-> <<>>, err |-> "none"]

\* Variant: the tasks are created while the request of page 1 is in flight,
\* for the largest page count.
GatherEager ==
    /\ pc = "page1_inflight"
    /\ tasks' = [i \in 1..(MaxPages - 1) |-> NewTask(i + 1)]
    /\ coro_returns' = [i \in 1..(MaxPages - 1) |-> Pending]
    /\ pc' = "gathering"
    /\ UNCHANGED <<mainVars, timeVars, reqVars, admitVars, endVars>>

\* lines 92-96: asyncio.gather wraps every coroutine of the generator in a
\* task, in the order of remaining_pages_indices.
Gather ==
    /\ pc = "remaining"
    /\ tasks' = [i \in 1..Len(remaining_pages_indices) |->
                    NewTask(remaining_pages_indices[i])]
    /\ coro_returns' = [i \in 1..Len(remaining_pages_indices) |-> Pending]
    /\ pc' = "gathering"
    /\ UNCHANGED <<mainVars, timeVars, reqVars, admitVars, endVars>>

\* line 83: task i enters the limiter and then the request.  acquire admits
\* it when the limiter has capacity, and the request is sent before the task
\* is suspended again; without capacity the task waits on the limiter.
Acquire(i, tries) ==
    IF HasCapacity(level)
    THEN /\ level' = level + TimePeriod
         /\ tasks' = [tasks EXCEPT ![i].state = "inflight", ![i].tries = tries]
         /\ anyAdmit' = TRUE
         /\ admitGap' = IF anyAdmit THEN sinceAdmit ELSE admitGap
         /\ sinceAdmit' = 0
         /\ lead' = IF anyAdmit THEN lead - TimePeriod ELSE 0
         /\ requested' = requested \cup {tasks[i].page}
         /\ UNCHANGED <<unadmitted, page1Requests>>
    ELSE /\ tasks' = [tasks EXCEPT ![i].state = "waiting", ![i].tries = tries]
         /\ UNCHANGED <<timeVars, admitVars, reqVars>>

\* A task runs for the first time, or again after its backoff sleep: the
\* decorator counts the try and calls the wrapped coroutine.
TaskStart(i) ==
    /\ pc = "gathering"
    /\ i \in 1..Len(tasks)
    /\ tasks[i].state \in {"scheduled", "backoff"}
    /\ Acquire(i, tasks[i].tries + 1)
    /\ UNCHANGED <<pc, mainVars, coro_returns, endVars>>

\* A task waiting on the limiter checks the capacity again.
TaskRecheck(i) ==
    /\ pc = "gathering"
    /\ i \in 1..Len(tasks)
    /\ tasks[i].state = "waiting"
    /\ Acquire(i, tasks[i].tries)
    /\ UNCHANGED <<pc, mainVars, coro_returns, endVars>>

\* The task of slot i has ended: its frame, and with it the decorator's
\* count of tries, is gone.
Ended(i, state, kind) ==
    [tasks EXCEPT ![i].state = state, ![i].tries = 0, ![i].last = kind]

\* Variant: gather without return_exceptions=True.  The first exception
\* leaves gather and get_all_services_metadata, and asyncio.run cancels the
\* tasks still running.
TaskRespondAbort(i, r) ==
    /\ pc = "gathering"
    /\ i \in 1..Len(tasks)
    /\ tasks[i].state = "inflight"
    /\ IF r.kind = "ok"
       THEN /\ tasks' = Ended(i, "done", r.kind)
            /\ coro_returns' = [coro_returns EXCEPT ![i] =
                  [kind |-> "value", value |-> PageItems(tasks[i].page, r.n),
                   err |-> "none"]]
            /\ UNCHANGED <<pc, error>>
       ELSE IF Retries(r.kind, tasks[i].tries)
       THEN /\ tasks' = [tasks EXCEPT ![i].state = "backoff", ![i].last = r.kind]
            /\ UNCHANGED <<coro_returns, pc, error>>
       ELSE /\ tasks' = [j \in 1..Len(tasks) |->
                  IF j = i THEN Ended(i, "failed", r.kind)[i]
                  ELSE IF tasks[j].state \in {"done", "failed"} THEN tasks[j]
                  ELSE [tasks[j] EXCEPT !.state = "failed", !.tries = 0]]
            /\ coro_returns' = [j \in 1..Len(tasks) |->
                  IF j = i THEN [kind |-> "exception", value |-> <<>>, err |-> r.kind]
                  ELSE IF tasks[j].state \in {"done", "failed"} THEN coro_returns[j]
                  ELSE [kind |-> "exception", value |-> <<>>, err |-> "cancelled"]]
            /\ pc' = "raised"
            /\ error' = r.kind
    /\ UNCHANGED <<first_page, remaining_pages_indices, services, errorLog,
                   result, timeVars, reqVars, admitVars, endVars>>

\* Variant: the decorator's count of tries is one counter shared by the
\* tasks, so a throttled page counts a try for every running task.
TaskRespondSharedTries(i, r) ==
    /\ pc = "gathering"
    /\ i \in 1..Len(tasks)
    /\ tasks[i].state = "inflight"
    /\ IF r.kind = "ok"
       THEN /\ tasks' = Ended(i, "done", r.kind)
            /\ coro_returns' = [coro_returns EXCEPT ![i] =
                  [kind |-> "value", value |-> PageItems(tasks[i].page, r.n),
                   err |-> "none"]]
       ELSE IF Retries(r.kind, tasks[i].tries)
       THEN /\ tasks' = [j \in 1..Len(tasks) |->
                  IF j = i
                  THEN [tasks[i] EXCEPT !.state = "backoff", !.last = r.kind]
                  ELSE IF tasks[j].state \in {"waiting", "inflight", "backoff"}
                          /\ tasks[j].tries < MaxTries
                  THEN [tasks[j] EXCEPT !.tries = @ + 1]
                  ELSE tasks[j]]
            /\ UNCHANGED coro_returns
       ELSE /\ tasks' = Ended(i, "failed", r.kind)
            /\ coro_returns' = [coro_returns EXCEPT ![i] =
                  [kind |-> "exception", value |-> <<>>, err |-> r.kind]]
    /\ endedOnLastTry' =
          IF tasks[i].tries = MaxTries /\ tasks'[i].state \in {"done", "failed"}
          THEN endedOnLastTry \cup {tasks[i].page}
          ELSE endedOnLastTry
    /\ outOfOrder' =
          (\/ outOfOrder
           \/ /\ tasks'[i].state \in {"done", "failed"}
              /\ \E j \in 1..(i - 1) : tasks[j].state \notin {"done", "failed"})
    /\ UNCHANGED <<pc, mainVars, timeVars, reqVars, admitVars>>

\* lines 83-88 under the decorator of lines 76-81: the response of the
\* request of task i arrives.
TaskRespond(i, r) ==
    /\ pc = "gathering"
    /\ i \in 1..Len(tasks)
    /\ tasks[i].state = "inflight"
    /\ IF r.kind = "ok"
       THEN /\ tasks' = Ended(i, "done", r.kind)
            /\ coro_returns' = [coro_returns EXCEPT ![i] =
                  [kind |-> "value", value |-> PageItems(tasks[i].page, r.n),
                   err |-> "none"]]
       ELSE IF Retries(r.kind, tasks[i].tries)
       THEN /\ tasks' = [tasks EXCEPT ![i].state = "backoff", ![i].last = r.kind]
            /\ UNCHANGED coro_returns
       ELSE /\ tasks' = Ended(i, "failed", r.kind)
            /\ coro_returns' = [coro_returns EXCEPT ![i] =
                  [kind |-> "exception", value |-> <<>>, err |-> r.kind]]
    /\ endedOnLastTry' =
          IF tasks[i].tries = MaxTries /\ tasks'[i].state \in {"done", "failed"}
          THEN endedOnLastTry \cup {tasks[i].page}
          ELSE endedOnLastTry
    /\ outOfOrder' =
          (\/ outOfOrder
           \/ /\ tasks'[i].state \in {"done", "failed"}
              /\ \E j \in 1..(i - 1) : tasks[j].state \notin {"done", "failed"})
    /\ UNCHANGED <<pc, mainVars, timeVars, reqVars, admitVars>>

\* Variant: gather returns when the first task has ended.
AllDoneAny == \E i \in 1..Len(tasks) : tasks[i].state \in {"done", "failed"}

\* Variant: the wait ends only when every task has a page.
AllDoneStrict == \A i \in 1..Len(tasks) : tasks[i].state = "done"

AllDone == \A i \in 1..Len(tasks) : tasks[i].state \in {"done", "failed"}

\* lines 96-104: gather returns once every task has ended; the returns are
\* merged in task order and the exceptions are logged.
Aggregate ==
    /\ pc = "gathering"
    /\ AllDone
    /\ services' = MergeReturns(coro_returns, Len(coro_returns))
    /\ errorLog' = LoggedErrors(coro_returns, remaining_pages_indices, Len(coro_returns))
    /\ pc' = "aggregated"
    /\ UNCHANGED <<first_page, remaining_pages_indices, result, error, tasks,
                   coro_returns, timeVars, reqVars, admitVars, endVars>>

\* Variant: the items of the first page are left out of the returned list.
ReturnServicesOnly ==
    /\ pc = "aggregated"
    /\ result' = services
    /\ pc' = "returned"
    /\ UNCHANGED <<first_page, remaining_pages_indices, services, errorLog,
                   error, tasks, coro_returns, timeVars, reqVars, admitVars,
                   endVars>>

\* line 109
Return ==
    /\ pc = "aggregated"
    /\ result' = first_page.services_metadata \o services
    /\ pc' = "returned"
    /\ UNCHANGED <<first_page, remaining_pages_indices, services, errorLog,
                   error, tasks, coro_returns, timeVars, reqVars, admitVars,
                   endVars>>

Next ==
    \/ Tick
    \/ Page1Request
    \/ \E r \in Page1Responses : Page1Respond(r)
    \/ ComputeRemaining
    \/ Gather
    \/ \E i \in 1..(MaxPages + 1) : TaskStart(i)
    \/ \E i \in 1..(MaxPages + 1) : TaskRecheck(i)
    \/ \E i \in 1..(MaxPages + 1), r \in Responses : TaskRespond(i, r)
    \/ Aggregate
    \/ Return

Spec == Init /\ [][Next]_vars

\* A step of the scheduler: the clock advances, a statement of
\* get_all_services_metadata is executed, or the event loop runs a task that
\* is ready to ask the limiter for a slot.
SchedulerStep ==
    \/ Tick
    \/ Page1Request
    \/ ComputeRemaining
    \/ Gather
    \/ Aggregate
    \/ Return
    \/ \E i \in 1..(MaxPages + 1) : TaskStart(i) \/ TaskRecheck(i)

\* The scheduler does not stop while it has a step to take.
SchedulerFairness == WF_vars(SchedulerStep)

\* Every request sent receives a response.
ResponseFairness ==
    /\ WF_vars(\E r \in Page1Responses : Page1Respond(r))
    /\ \A i \in 1..(MaxPages - 1) : WF_vars(\E r \in Responses : TaskRespond(i, r))

\* The export under a fair scheduler, with responses that may never come.
SchedSpec == Spec /\ SchedulerFairness

\* The export under a fair scheduler and a service that always responds.
FairSpec == Spec /\ SchedulerFairness /\ ResponseFairness

TypeOK ==
    /\ pc \in {"start", "page1_inflight", "page1_done", "remaining", "gathering",
               "aggregated", "returned", "raised"}
    /\ level \in 0..(MaxRate * TimePeriod)

\* ---- the properties

TaskIndices == 1..Len(tasks)
TaskEnded(i) == tasks[i].state \in {"done", "failed"}
FailedPages == {errorLog[k].page : k \in 1..Len(errorLog)}
ItemsOfPage(seq, p) == SelectSeq(seq, LAMBDA x : x[1] = p)

\* C1: no task for a page >= 2 exists and no request for a page >= 2 has been
\* sent unless the page-1 fetch has succeeded and the remaining page indices
\* have been computed from its total_page_count.
C1_NoFetchBeforePage1 ==
    (tasks # <<>> \/ pc \in {"gathering", "aggregated", "returned"}
        \/ \E p \in requested : p >= 2)
    => /\ first_page.ok
       /\ pc \in {"gathering", "aggregated", "returned"}
       /\ remaining_pages_indices =
             [i \in 1..Max(first_page.total_page_count - 1, 0) |-> i + 1]

C1_Witness ==
    /\ tasks # <<>>
    /\ \E p \in requested : p >= 2

\* C2: once the tasks are created, for a total_page_count N >= 1 there are
\* exactly N - 1 of them, the i-th for page i + 1, so that the pages are
\* submitted in ascending order, every page of 2..N has one task and no page
\* has two; requests go to page 1 and to pages that have a task only.
C2_OneTaskPerRemainingPage ==
    pc \in {"gathering", "aggregated", "returned"} =>
        /\ first_page.total_page_count >= 1 =>
              Len(tasks) = first_page.total_page_count - 1
        /\ \A i \in TaskIndices : tasks[i].page = i + 1
        /\ \A i, j \in TaskIndices : i # j => tasks[i].page # tasks[j].page
        /\ Len(coro_returns) = Len(tasks)
        /\ requested \subseteq {1} \cup {tasks[i].page : i \in TaskIndices}

C2_Witness ==
    /\ pc = "gathering"
    /\ first_page.total_page_count = MaxPages
    /\ Len(tasks) = MaxPages - 1
    /\ \A i \in TaskIndices : tasks[i].page \in requested

\* C3: the returned list is ordered by page index, and the items of one page
\* keep the order the page had them in, whatever the order the tasks ended in.
C3_RecordsInPageOrder ==
    pc = "returned" =>
        \A a, b \in 1..Len(result) :
            a < b => \/ result[a][1] < result[b][1]
                     \/ /\ result[a][1] = result[b][1]
                        /\ result[a][2] < result[b][2]

C3_Witness ==
    /\ pc = "returned"
    /\ outOfOrder
    /\ Len(tasks) >= 2
    /\ Len(result) = (Len(tasks) + 1) * MaxItems

\* C4: a failure of a task never fails the operation or another task: the
\* operation raises only before any task exists, a task is failed only with
\* the error of its own last response and is done iff its own last response
\* was a page, the merge starts only when every task has ended, and the
\* items of every page that succeeded are in the returned list.
C4_FailureIsolation ==
    /\ pc = "raised" => tasks = <<>>
    /\ \A j \in TaskIndices :
          /\ tasks[j].state \in {"scheduled", "waiting", "inflight", "backoff",
                                 "done", "failed"}
          /\ tasks[j].state = "failed" =>
                /\ tasks[j].last \in ErrorKinds
                /\ coro_returns[j].kind = "exception"
                /\ coro_returns[j].err = tasks[j].last
          /\ tasks[j].state = "done" <=> tasks[j].last = "ok"
          /\ tasks[j].state = "done" <=> coro_returns[j].kind = "value"
    /\ pc \in {"aggregated", "returned"} => \A j \in TaskIndices : TaskEnded(j)
    /\ pc = "returned" =>
          \A j \in TaskIndices :
              tasks[j].state = "done" =>
                  ItemsOfPage(result, tasks[j].page) = coro_returns[j].value

C4_Witness ==
    /\ pc = "returned"
    /\ \E i, j \in TaskIndices :
          /\ i < j
          /\ tasks[i].state = "failed"
          /\ tasks[j].state = "done"
          /\ Len(ItemsOfPage(result, tasks[j].page)) = MaxItems

\* C5: in a returned result every page of 1..total_page_count either has
\* contributed its items to the list or is reported as failed, never both;
\* the pages reported are exactly those whose task failed, each once and
\* with its error, and no item of a failed page is in the list.
C5_ContributedOrFailed ==
    pc = "returned" =>
        /\ FailedPages = {tasks[i].page : i \in {j \in TaskIndices : tasks[j].state = "failed"}}
        /\ Len(errorLog) = Cardinality(FailedPages)
        /\ 1 \notin FailedPages
        /\ ItemsOfPage(result, 1) = first_page.services_metadata
        /\ \A i \in TaskIndices :
              LET p == tasks[i].page IN
              /\ p \in 2..first_page.total_page_count
              /\ (p \in FailedPages) <=> (tasks[i].last # "ok")
              /\ p \in FailedPages =>
                    /\ ItemsOfPage(result, p) = <<>>
                    /\ \E k \in 1..Len(errorLog) :
                          errorLog[k] = [page |-> p, error |-> tasks[i].last]
              /\ p \notin FailedPages =>
                    ItemsOfPage(result, p) = coro_returns[i].value
        /\ \A p \in 2..first_page.total_page_count : \E i \in TaskIndices : tasks[i].page = p
        /\ \A k \in 1..Len(result) :
              result[k][1] \in ({1} \cup {tasks[i].page : i \in TaskIndices}) \ FailedPages

\* total_page_count = 3, page 2 fails, page 3 succeeds.
C5_Witness ==
    /\ pc = "returned"
    /\ first_page.total_page_count = 3
    /\ tasks[1].last = "bad_status"
    /\ tasks[2].last = "ok"
    /\ result = PageItems(1, MaxItems) \o PageItems(3, MaxItems)
    /\ FailedPages = {2}

\* C6: a task never counts more than max_tries = 10 tries and never sleeps
\* for a retry after the 10th; a task that ended on its 10th try with a page
\* is done and is not reported as failed; a task whose last response was a
\* throttling one has failed, and only on its 10th try.
C6_AtMostTenAttempts ==
    \A i \in TaskIndices :
        LET p == tasks[i].page IN
        /\ tasks[i].tries <= 10
        /\ tasks[i].state = "backoff" => tasks[i].tries < 10
        /\ (p \in endedOnLastTry /\ tasks[i].last = "ok") =>
              /\ tasks[i].state = "done"
              /\ coro_returns[i].kind = "value"
              /\ pc \in {"aggregated", "returned"} => p \notin FailedPages
        /\ (TaskEnded(i) /\ tasks[i].last = "too_many") =>
              /\ p \in endedOnLastTry
              /\ tasks[i].state = "failed"
              /\ pc \in {"aggregated", "returned"} => p \in FailedPages

C6_Witness ==
    \E i \in TaskIndices :
        /\ tasks[i].page \in endedOnLastTry
        /\ tasks[i].state = "done"

\* C7: a task whose last response was an error other than throttling has
\* ended as failed with that error, on whichever try it came: it is not
\* waiting for a retry and has no request in flight.
C7_NoRetryOfOtherErrors ==
    \A i \in TaskIndices :
        tasks[i].last \in ErrorKinds \ {"too_many"} =>
            /\ tasks[i].state = "failed"
            /\ coro_returns[i].kind = "exception"
            /\ coro_returns[i].err = tasks[i].last

C7_Witness ==
    /\ \E i \in TaskIndices :
          tasks[i].state = "failed" /\ tasks[i].last = "network"
             /\ tasks[i].page \in endedOnLastTry
    /\ \E i \in TaskIndices :
          tasks[i].state = "failed" /\ tasks[i].last = "bad_status"
             /\ tasks[i].page \notin endedOnLastTry

\* C8: when the page-1 fetch has failed the operation has raised its error:
\* nothing is returned, no task exists and no request other than that of
\* page 1 was sent.
C8_BootstrapFailureIsFatal ==
    /\ (~first_page.ok /\ pc \notin {"start", "page1_inflight"}) => pc = "raised"
    /\ pc = "raised" =>
          /\ ~first_page.ok
          /\ error \in ErrorKinds
          /\ result = <<>>
          /\ services = <<>>
          /\ tasks = <<>>
          /\ requested = {1}
    /\ pc # "raised" => error = "none"

C8_Witness ==
    /\ pc = "raised"
    /\ error = "network"

\* C9: two admissions of the limiter are at least 1.5 time-units (3 ticks)
\* apart, and so the time since the first admission is at least 1.5
\* time-units for every admission after the first.
C9_AdmissionsOnePeriodApart ==
    anyAdmit => /\ admitGap >= 3
                /\ lead >= 0

C9_Witness ==
    /\ Cardinality(requested \ {1}) >= 2
    /\ sinceAdmit = 0
    /\ \E i \in TaskIndices : tasks[i].state = "inflight" /\ tasks[i].tries >= 2

\* C10: every request, that of page 1 included, is sent under an admission
\* of the limiter of its own.
C10_EveryRequestAdmitted == unadmitted = {}

\* C12: when page 1 reports a total_page_count <= 1 no task is created and no
\* request other than that of page 1 is sent, and the list returned is the
\* items of page 1 in their order.
C12_SinglePageExport ==
    (first_page.ok /\ first_page.total_page_count <= 1) =>
        /\ tasks = <<>>
        /\ requested = {1}
        /\ page1Requests = 1
        /\ pc = "returned" =>
              /\ result = first_page.services_metadata
              /\ \A k \in 1..Len(result) : result[k] = <<1, k>>

C12_Witness ==
    /\ pc = "returned"
    /\ first_page.total_page_count = 1
    /\ Len(result) = MaxItems

C14_StateOk ==
    /\ pc \in {"aggregated", "returned"} =>
          \A i \in TaskIndices :
              /\ TaskEnded(i)
              /\ coro_returns[i].kind \in {"value", "exception"}
    /\ \A i \in TaskIndices : TaskEnded(i) <=> coro_returns[i].kind # "pending"

C14_StepOk ==
    \A i \in TaskIndices :
        TaskEnded(i) => /\ Len(tasks') = Len(tasks)
                        /\ tasks'[i] = tasks[i]
                        /\ coro_returns'[i] = coro_returns[i]

\* C14: while the merge is built or returned no task is still running: every
\* task has ended with one outcome, a value or an exception, in its slot; and
\* a task that has ended, and its slot, never change again.
C14_AggregateAfterAllOutcomes == [](C14_StateOk) /\ [][C14_StepOk]_vars

C14_Witness ==
    /\ pc = "aggregated"
    /\ outOfOrder
    /\ \E i, j \in TaskIndices :
          tasks[i].state = "done" /\ tasks[j].state = "failed"

C17_StepOk ==
    Len(tasks') = Len(tasks) =>
        \A i \in TaskIndices :
            /\ tasks'[i] # tasks[i] =>
                  \A j \in TaskIndices \ {i} :
                      /\ tasks'[j] = tasks[j]
                      /\ coro_returns'[j] = coro_returns[j]
            /\ tasks'[i].tries # tasks[i].tries =>
                  \/ /\ tasks[i].state \in {"scheduled", "backoff"}
                     /\ tasks'[i].state \in {"waiting", "inflight"}
                     /\ tasks'[i].tries = tasks[i].tries + 1
                  \/ /\ tasks[i].state = "inflight"
                     /\ tasks'[i].state \in {"done", "failed"}
            /\ tasks'[i].page = tasks[i].page

\* C17: a step changes the record of at most one task, and with it only
\* that task's slot of the returns; the count of tries of a task changes only
\* by one, when that task itself asks the limiter for a slot for a new
\* attempt, or when that task ends.
C17_RetryStatePerTask == [][C17_StepOk]_vars

C17_Witness ==
    /\ Len(tasks) >= 2
    /\ tasks[1].state = "backoff"
    /\ tasks[1].tries = 3
    /\ tasks[2].state = "inflight"
    /\ tasks[2].tries = 1

RECURSIVE SumOfValues(_, _)
SumOfValues(rets, i) ==
    IF i = 0 THEN 0
    ELSE SumOfValues(rets, i - 1)
            + (IF rets[i].kind = "value" THEN Len(rets[i].value) ELSE 0)

\* C18: a task that is still to try again has contributed nothing, and in the
\* returned list every item occurs once: its length is the number of items
\* of page 1 plus those of the pages whose task has a page, a page that came
\* after throttled attempts included.
C18_ItemsExactlyOnce ==
    /\ \A i \in TaskIndices : ~TaskEnded(i) => coro_returns[i] = Pending
    /\ pc = "returned" =>
          /\ Len(result) = Len(first_page.services_metadata)
                              + SumOfValues(coro_returns, Len(coro_returns))
          /\ \A a, b \in 1..Len(result) : a # b => result[a] # result[b]
          /\ \A i \in TaskIndices :
                tasks[i].state = "done" =>
                    Len(ItemsOfPage(result, tasks[i].page)) = Len(coro_returns[i].value)

C18_Witness ==
    /\ pc = "returned"
    /\ \E i \in TaskIndices :
          /\ tasks[i].page \in endedOnLastTry
          /\ tasks[i].state = "done"
          /\ ItemsOfPage(result, tasks[i].page) = PageItems(tasks[i].page, MaxItems)

\* C11: the limiter admits in the order of the requests, so a task that asks
\* for a slot now is not admitted while another task, which asked for its
\* slot earlier, is still waiting for it.
C11_FifoStep ==
    Len(tasks') = Len(tasks) =>
        \A i \in TaskIndices :
            (tasks[i].state \in {"scheduled", "backoff"} /\ tasks'[i].state = "inflight")
                => \A j \in TaskIndices \ {i} : tasks[j].state # "waiting"

C11_FifoAdmission == [][C11_FifoStep]_vars

\* C13: a throttling response to the request of page 1 is retried like that
\* of any page: the throttling error leaves the operation only after 10
\* requests for page 1.
C13_Page1ThrottlingRetried ==
    (pc = "raised" /\ error = "too_many") => page1Requests = 10

Finished ==
    /\ pc \in {"returned", "raised"}
    /\ \A i \in TaskIndices : TaskEnded(i)

\* C15: with a fair scheduler and a service that answers every request, the
\* export ends: every task ends and the operation returns its list or raises
\* the error of page 1, whatever the service answers.
C15_ExportTerminates == <>Finished

C15_Witness ==
    /\ pc = "returned"
    /\ Len(tasks) >= 2
    /\ \A i \in TaskIndices :
          tasks[i].last = "too_many" /\ tasks[i].page \in endedOnLastTry

\* C16: with a fair scheduler, a task h whose responses may never come does
\* not block the others: every other task whose requests are answered ends.
C16_NoBlockingByOtherPage ==
    \A h \in 1..(MaxPages - 1) :
        (\A j \in (1..(MaxPages - 1)) \ {h} :
              WF_vars(\E r \in Responses : TaskRespond(j, r)))
        => \A j \in (1..(MaxPages - 1)) \ {h} :
              [](Len(tasks) >= j => <>(Len(tasks) >= j /\ TaskEnded(j)))

C16_Witness ==
    \E h, j \in TaskIndices :
        /\ tasks[h].state = "inflight"
        /\ tasks[h].tries = 1
        /\ tasks[j].state = "failed"
        /\ tasks[j].page \in endedOnLastTry
====
